---- MODULE Spec2Model ----
(***************************************************************************)
(* Model of the LLDB summary providers for chrono values,                  *)
(* .devenv/lldb/rust/chrono.py: naive_date, naive_time, naive_datetime,    *)
(* datetime_fixed and datetime_utc.  Each provider is a pure function of   *)
(* the raw integer fields it reads; an action applies one provider to the  *)
(* fields drawn by Init and stores what it returns (a string, kept as a    *)
(* sequence of one-character strings, or the exception it raises).         *)
(***************************************************************************)
EXTENDS Integers, Sequences, FiniteSets, TLC

VARIABLES ymdf, secs, frac, offset, ypad, pc, out

vars == <<ymdf, secs, frac, offset, ypad, pc, out>>

(***************************************************************************)
(* Bounds of the input sets.                                               *)
(***************************************************************************)
YearSpan == 4
Slack == 1

(***************************************************************************)
(* Python's datetime module, as far as the providers use it.               *)
(***************************************************************************)
MINYEAR == 1
MAXYEAR == 9999
MAXORDINAL == 3652059
DI400Y == 146097
DI100Y == 36524
DI4Y == 1461

DAYS_IN_MONTH == <<31, 28, 31, 30, 31, 30, 31, 31, 30, 31, 30, 31>>
DAYS_BEFORE_MONTH == <<0, 31, 59, 90, 120, 151, 181, 212, 243, 273, 304, 334>>

is_leap(year) == year % 4 = 0 /\ (year % 100 # 0 \/ year % 400 = 0)

days_before_year(year) ==
    LET y == year - 1
    IN  y * 365 + (y \div 4) - (y \div 100) + (y \div 400)

days_before_month(year, month) ==
    DAYS_BEFORE_MONTH[month] + (IF month > 2 /\ is_leap(year) THEN 1 ELSE 0)

ymd2ord(year, month, day) ==
    days_before_year(year) + days_before_month(year, month) + day

ord2ymd(ordinal) ==
    LET n0 == ordinal - 1
        n400 == n0 \div DI400Y
        r400 == n0 % DI400Y
        n100 == r400 \div DI100Y
        r100 == r400 % DI100Y
        n4 == r100 \div DI4Y
        r4 == r100 % DI4Y
        n1 == r4 \div 365
        n == r4 % 365
        year == n400 * 400 + 1 + n100 * 100 + n4 * 4 + n1
        leapyear == n1 = 3 /\ (n4 # 24 \/ n100 = 3)
        month0 == (n + 50) \div 32
        preceding0 == DAYS_BEFORE_MONTH[month0]
                        + (IF month0 > 2 /\ leapyear THEN 1 ELSE 0)
        month == IF preceding0 > n THEN month0 - 1 ELSE month0
        preceding == IF preceding0 > n
                     THEN preceding0 - (DAYS_IN_MONTH[month]
                            + (IF month = 2 /\ leapyear THEN 1 ELSE 0))
                     ELSE preceding0
    IN  IF n1 = 4 \/ n100 = 4
        THEN [year |-> year - 1, month |-> 12, day |-> 31]
        ELSE [year |-> year, month |-> month, day |-> n - preceding + 1]

\* A datetime value, or the exception raised in place of one.
DtValue(kind, y, mo, d, h, mi, s) ==
    [kind |-> kind, year |-> y, month |-> mo, day |-> d,
     hour |-> h, minute |-> mi, second |-> s]

DtRaise(kind) == DtValue(kind, 0, 0, 0, 0, 0, 0)

\* datetime(year, month, day): ValueError outside MINYEAR..MAXYEAR.
datetime(year, month, day) ==
    IF year < MINYEAR \/ year > MAXYEAR
    THEN DtRaise("ValueError")
    ELSE DtValue("ok", year, month, day, 0, 0, 0)

\* timedelta(days=..., seconds=...), normalised to 0 <= seconds < 86400.
timedelta(days, seconds) ==
    [days |-> days + (seconds \div 86400), seconds |-> seconds % 86400]

\* datetime.__add__: an exception on the left propagates; a result whose
\* ordinal leaves 1..MAXORDINAL raises OverflowError.
dt_add(dt, td) ==
    IF dt.kind # "ok" THEN dt
    ELSE LET s == dt.hour * 3600 + dt.minute * 60 + dt.second + td.seconds
             delta == timedelta(ymd2ord(dt.year, dt.month, dt.day) + td.days, s)
             hour == delta.seconds \div 3600
             rem == delta.seconds % 3600
         IN  IF 0 < delta.days /\ delta.days <= MAXORDINAL
             THEN LET ymd == ord2ymd(delta.days)
                  IN  DtValue("ok", ymd.year, ymd.month, ymd.day,
                              hour, rem \div 60, rem % 60)
             ELSE DtRaise("OverflowError")

(***************************************************************************)
(* Formatting.                                                             *)
(***************************************************************************)
DigitChars == <<"0", "1", "2", "3", "4", "5", "6", "7", "8", "9">>

RECURSIVE Decimal(_)
Decimal(n) ==
    IF n < 10 THEN <<DigitChars[n + 1]>>
    ELSE Append(Decimal(n \div 10), DigitChars[(n % 10) + 1])

RECURSIVE Zeros(_)
Zeros(k) == IF k <= 0 THEN <<>> ELSE <<"0">> \o Zeros(k - 1)

\* format(n, "0w") of a non-negative integer: zero-padded to at least w.
ZeroPad(n, w) == Zeros(w - Len(Decimal(n))) \o Decimal(n)

\* strftime directives; %Y is padded to 4 digits or not at all, depending
\* on the C library behind the interpreter (yw is 4 or 1).
strftime_Ymd(dt, yw) ==
    ZeroPad(dt.year, yw) \o <<"-">> \o ZeroPad(dt.month, 2)
        \o <<"-">> \o ZeroPad(dt.day, 2)

strftime_HMS(dt) ==
    ZeroPad(dt.hour, 2) \o <<":">> \o ZeroPad(dt.minute, 2)
        \o <<":">> \o ZeroPad(dt.second, 2)

strftime_YmdTHMS(dt, yw) == strftime_Ymd(dt, yw) \o <<"T">> \o strftime_HMS(dt)

strftime_HM(dt) == ZeroPad(dt.hour, 2) \o <<":">> \o ZeroPad(dt.minute, 2)

\* What a provider hands back: a string, or the exception it raised.
Returned(str) == [kind |-> "ok", str |-> str]
Raised(kind) == [kind |-> kind, str |-> <<>>]

(***************************************************************************)
(* The providers.                                                          *)
(***************************************************************************)
naive_date_date_plus1(y_m_d_f) ==
    LET year == y_m_d_f \div 8192
        day_of_year == (y_m_d_f % 8192) \div 16
    IN  dt_add(datetime(year - 1, 12, 31), timedelta(day_of_year + 1, 0))

naive_date_date(y_m_d_f) ==
    LET year == y_m_d_f \div 8192
        day_of_year == (y_m_d_f % 8192) \div 16
    IN  dt_add(datetime(year - 1, 12, 31), timedelta(day_of_year, 0))

naive_date(y_m_d_f, yw) ==
    LET date == naive_date_date(y_m_d_f)
    IN  IF date.kind # "ok" THEN Raised(date.kind)
        ELSE Returned(strftime_Ymd(date, yw))

naive_time_minutes_unwrapped(s, nano) ==
    LET h == s \div 3600
        m == s \div 60
        sec == s % 60
    IN  Returned(ZeroPad(h, 2) \o <<":">> \o ZeroPad(m, 2) \o <<":">>
                 \o ZeroPad(sec, 2) \o <<".">> \o ZeroPad(nano, 9))

naive_time(s, nano) ==
    LET h == s \div 3600
        m == (s \div 60) % 60
        sec == s % 60
    IN  Returned(ZeroPad(h, 2) \o <<":">> \o ZeroPad(m, 2) \o <<":">>
                 \o ZeroPad(sec, 2) \o <<".">> \o ZeroPad(nano, 9))

naive_datetime_date_same_year(y_m_d_f, s) ==
    LET year == y_m_d_f \div 8192
        day_of_year == (y_m_d_f % 8192) \div 16
    IN  dt_add(dt_add(datetime(year, 12, 31), timedelta(day_of_year, 0)),
               timedelta(0, s))

naive_datetime_date(y_m_d_f, s) ==
    LET year == y_m_d_f \div 8192
        day_of_year == (y_m_d_f % 8192) \div 16
    IN  dt_add(dt_add(datetime(year - 1, 12, 31), timedelta(day_of_year, 0)),
               timedelta(0, s))

naive_datetime_subsec_rounded(nano) == (nano + 500000) \div 1000000

naive_datetime_subsec(nano) == nano \div 1000000

naive_datetime(y_m_d_f, s, nano, yw) ==
    LET date == naive_datetime_date(y_m_d_f, s)
        subsec == naive_datetime_subsec(nano)
    IN  IF date.kind # "ok" THEN Raised(date.kind)
        ELSE Returned(strftime_YmdTHMS(date, yw) \o <<".">> \o ZeroPad(subsec, 3))

datetime_fixed_offset_sign_strict(off) == IF 0 < off THEN "+" ELSE "-"

datetime_fixed_offset_sign(off) == IF 0 <= off THEN "+" ELSE "-"

datetime_fixed_offset_dt_signed(off) ==
    dt_add(datetime(1900, 1, 1), timedelta(0, off))

datetime_fixed_offset_dt(off) ==
    dt_add(datetime(1900, 1, 1), timedelta(0, IF off < 0 THEN -off ELSE off))

datetime_fixed_date_no_offset(y_m_d_f, s, off) ==
    LET year == y_m_d_f \div 8192
        day_of_year == (y_m_d_f % 8192) \div 16
    IN  dt_add(dt_add(datetime(year - 1, 12, 31), timedelta(day_of_year, 0)),
               timedelta(0, s))

datetime_fixed_date(y_m_d_f, s, off) ==
    LET year == y_m_d_f \div 8192
        day_of_year == (y_m_d_f % 8192) \div 16
    IN  dt_add(dt_add(datetime(year - 1, 12, 31), timedelta(day_of_year, 0)),
               timedelta(0, s + off))

datetime_fixed_subsec(nano) == nano \div 1000000

datetime_fixed(y_m_d_f, s, nano, off, yw) ==
    LET offset_sign == datetime_fixed_offset_sign(off)
        offset_dt == datetime_fixed_offset_dt(off)
        date == datetime_fixed_date(y_m_d_f, s, off)
        subsec == datetime_fixed_subsec(nano)
    IN  IF offset_dt.kind # "ok" THEN Raised(offset_dt.kind)
        ELSE IF date.kind # "ok" THEN Raised(date.kind)
        ELSE Returned(strftime_YmdTHMS(date, yw) \o <<".">> \o ZeroPad(subsec, 3)
                      \o <<offset_sign>> \o strftime_HM(offset_dt))

datetime_utc_numeric_suffix(y_m_d_f, s, nano, yw) ==
    LET year == y_m_d_f \div 8192
        day_of_year == (y_m_d_f % 8192) \div 16
        date == dt_add(dt_add(datetime(year - 1, 12, 31),
                              timedelta(day_of_year, 0)), timedelta(0, s))
        subsec == nano \div 1000000
    IN  IF date.kind # "ok" THEN Raised(date.kind)
        ELSE Returned(strftime_YmdTHMS(date, yw) \o <<".">> \o ZeroPad(subsec, 3)
                      \o <<"+", "0", "0", ":", "0", "0">>)

datetime_utc(y_m_d_f, s, nano, yw) ==
    LET year == y_m_d_f \div 8192
        day_of_year == (y_m_d_f % 8192) \div 16
        date == dt_add(dt_add(datetime(year - 1, 12, 31),
                              timedelta(day_of_year, 0)), timedelta(0, s))
        subsec == nano \div 1000000
    IN  IF date.kind # "ok" THEN Raised(date.kind)
        ELSE Returned(strftime_YmdTHMS(date, yw) \o <<".">> \o ZeroPad(subsec, 3)
                      \o <<"Z">>)

(***************************************************************************)
(* The raw field values a debugger session hands to the providers.         *)
(***************************************************************************)
Ymdf(year, ordinal, flags) == year * 8192 + ordinal * 16 + flags

Around(keys) == UNION {(k - Slack)..(k + Slack) : k \in keys}

StoredYears == UNION {b..(b + YearSpan) : b \in {1, 1896, 1996, 2020, 9996}}
OrdinalFields == (Around({1, 60, 366}) \cup {400, 511}) \cap (0..511)
FlagBits == {0, 15}
SecsValues == Around({0, 3661, 86400}) \cap Nat
FracValues == Around({0, 1000000, 500000000, 1000000000, 1500000000,
                      1999999999}) \cap Nat
OffsetValues == Around({-86400, -18000, -3600, -60, 0, 60, 600, 3600,
                        19800, 86400})

\* Every year shape, ordinal field and flag pattern, at midnight.
InitDate ==
    /\ ymdf \in {Ymdf(y, o, f) : y \in StoredYears, o \in OrdinalFields,
                                 f \in FlagBits}
    /\ secs = 0
    /\ frac = 0
    /\ offset = 0

\* Every seconds and nanoseconds shape, on a few dates.
InitTime ==
    /\ ymdf \in {Ymdf(2024, 1, 0), Ymdf(2023, 365, 0), Ymdf(9999, 365, 0)}
    /\ secs \in SecsValues
    /\ frac \in FracValues
    /\ offset = 0

\* Every offset shape, on dates at month, leap-day and year ends.
InitFixed ==
    /\ ymdf \in {Ymdf(2024, 1, 0), Ymdf(2023, 365, 0), Ymdf(2024, 59, 0),
                 Ymdf(2024, 60, 0), Ymdf(1900, 59, 0), Ymdf(2, 1, 0),
                 Ymdf(9999, 365, 0)}
    /\ secs \in {0, 3661, 85800, 86399}
    /\ frac \in {0, 500000000}
    /\ offset \in OffsetValues

Init ==
    /\ InitDate \/ InitTime \/ InitFixed
    /\ ypad \in {1, 4}
    /\ pc = "ready"
    /\ out = [kind |-> "none", str |-> <<>>]

NaiveDate ==
    /\ pc = "ready"
    /\ out' = naive_date(ymdf, ypad)
    /\ pc' = "naive_date"
    /\ UNCHANGED <<ymdf, secs, frac, offset, ypad>>

NaiveTime ==
    /\ pc = "ready"
    /\ out' = naive_time(secs, frac)
    /\ pc' = "naive_time"
    /\ UNCHANGED <<ymdf, secs, frac, offset, ypad>>

NaiveDatetime ==
    /\ pc = "ready"
    /\ out' = naive_datetime(ymdf, secs, frac, ypad)
    /\ pc' = "naive_datetime"
    /\ UNCHANGED <<ymdf, secs, frac, offset, ypad>>

DatetimeFixed ==
    /\ pc = "ready"
    /\ out' = datetime_fixed(ymdf, secs, frac, offset, ypad)
    /\ pc' = "datetime_fixed"
    /\ UNCHANGED <<ymdf, secs, frac, offset, ypad>>

DatetimeUtc ==
    /\ pc = "ready"
    /\ out' = datetime_utc(ymdf, secs, frac, ypad)
    /\ pc' = "datetime_utc"
    /\ UNCHANGED <<ymdf, secs, frac, offset, ypad>>

Next == NaiveDate \/ NaiveTime \/ NaiveDatetime \/ DatetimeFixed \/ DatetimeUtc

Spec == Init /\ [][Next]_vars

TypeOK ==
    /\ ymdf \in Nat /\ secs \in Nat /\ frac \in Nat /\ offset \in Int
    /\ ypad \in {1, 4}
    /\ pc \in {"ready", "naive_date", "naive_time", "naive_datetime",
               "datetime_fixed", "datetime_utc"}
    /\ out.kind \in {"none", "ok", "ValueError", "OverflowError"}


(***************************************************************************)
(* Reading a returned string back: the properties below are stated on the  *)
(* characters of the output, and on a calendar that walks month by month   *)
(* instead of converting through day ordinals.                             *)
(***************************************************************************)
DigitSet == {"0", "1", "2", "3", "4", "5", "6", "7", "8", "9"}

DigitValue(c) == (CHOOSE d \in 1..10 : DigitChars[d] = c) - 1

At(str, i) == IF i >= 1 /\ i <= Len(str) THEN str[i] ELSE "none"

Slice(str, a, b) ==
    IF a > b \/ a > Len(str) \/ a < 1 THEN <<>>
    ELSE SubSeq(str, a, IF b > Len(str) THEN Len(str) ELSE b)

\* Index of the last digit of the run of digits that starts at i (i - 1 if
\* there is none).
RECURSIVE RunEnd(_, _)
RunEnd(str, i) ==
    IF i > Len(str) \/ str[i] \notin DigitSet THEN i - 1 ELSE RunEnd(str, i + 1)

\* The number written by the digits str[a..b].
RECURSIVE NatAt(_, _, _)
NatAt(str, a, b) ==
    IF b < a THEN 0 ELSE NatAt(str, a, b - 1) * 10 + DigitValue(str[b])

\* The fields of "Y-M-D", "Y-M-DTh:m:s.f" followed by a suffix, read off
\* the separators; shaped is FALSE when a separator is not where it belongs.
Fields(str) ==
    LET y == RunEnd(str, 1)
        mo == RunEnd(str, y + 2)
        d == RunEnd(str, mo + 2)
        h == RunEnd(str, d + 2)
        mi == RunEnd(str, h + 2)
        sc == RunEnd(str, mi + 2)
        ms == RunEnd(str, sc + 2)
        dated == /\ y >= 1 /\ mo = y + 3 /\ d = mo + 3
                 /\ At(str, y + 1) = "-" /\ At(str, mo + 1) = "-"
        timed == /\ dated /\ At(str, d + 1) = "T"
                 /\ h >= d + 2 /\ At(str, h + 1) = ":"
                 /\ mi >= h + 2 /\ At(str, mi + 1) = ":"
                 /\ sc >= mi + 2 /\ At(str, sc + 1) = "."
                 /\ ms >= sc + 2
    IN  [dated |-> dated,
         dateOnly |-> dated /\ d = Len(str),
         timed |-> timed,
         date |-> IF dated
                  THEN <<NatAt(str, 1, y), NatAt(str, y + 2, mo), NatAt(str, mo + 2, d)>>
                  ELSE <<0, 0, 0>>,
         datePart |-> Slice(str, 1, d),
         hour |-> Slice(str, d + 2, h),
         minute |-> Slice(str, h + 2, mi),
         second |-> Slice(str, mi + 2, sc),
         clock |-> Slice(str, d + 2, sc),
         millis |-> Slice(str, sc + 2, ms),
         suffix |-> Slice(str, ms + 1, Len(str))]

\* The fields of "h:m:s.f" returned by naive_time.
TimeFields(str) ==
    LET h == RunEnd(str, 1)
        mi == RunEnd(str, h + 2)
        sc == RunEnd(str, mi + 2)
        ns == RunEnd(str, sc + 2)
    IN  [shaped |-> /\ h >= 1 /\ At(str, h + 1) = ":"
                    /\ mi >= h + 2 /\ At(str, mi + 1) = ":"
                    /\ sc >= mi + 2 /\ At(str, sc + 1) = "."
                    /\ ns >= sc + 2 /\ ns = Len(str),
         hour |-> Slice(str, 1, h),
         minute |-> Slice(str, h + 2, mi),
         second |-> Slice(str, mi + 2, sc),
         clock |-> Slice(str, 1, sc),
         nanos |-> Slice(str, sc + 2, ns)]

NatOf(digits) == NatAt(digits, 1, Len(digits))

\* digits is a number zero-padded to at least w digits and no further.
PaddedTo(digits, w) ==
    /\ Len(digits) >= w
    /\ \A i \in 1..Len(digits) : digits[i] \in DigitSet
    /\ Len(digits) > w => digits[1] # "0"

\* The calendar, month by month.
LeapYear(y) == (y % 4 = 0 /\ y % 100 # 0) \/ y % 400 = 0

YearLength(y) == IF LeapYear(y) THEN 366 ELSE 365

MonthLength(y, m) ==
    IF m = 2 THEN (IF LeapYear(y) THEN 29 ELSE 28)
    ELSE IF m \in {4, 6, 9, 11} THEN 30 ELSE 31

\* <<y, m, d>> advanced by n >= 0 days.
RECURSIVE Advance(_, _)
Advance(ymd, n) ==
    IF ymd[3] + n <= MonthLength(ymd[1], ymd[2])
    THEN <<ymd[1], ymd[2], ymd[3] + n>>
    ELSE Advance(IF ymd[2] = 12 THEN <<ymd[1] + 1, 1, 0>>
                                ELSE <<ymd[1], ymd[2] + 1, 0>>,
                 n - (MonthLength(ymd[1], ymd[2]) - ymd[3]))

DayBefore(ymd) ==
    IF ymd[3] > 1 THEN <<ymd[1], ymd[2], ymd[3] - 1>>
    ELSE IF ymd[2] > 1 THEN <<ymd[1], ymd[2] - 1, MonthLength(ymd[1], ymd[2] - 1)>>
    ELSE <<ymd[1] - 1, 12, 31>>

\* <<y, m, d>> shifted by k days, k >= -1.
Shifted(ymd, k) == IF k < 0 THEN DayBefore(ymd) ELSE Advance(ymd, k)

StoredYear == ymdf \div 8192
OrdinalField == (ymdf % 8192) \div 16
Magnitude == IF offset < 0 THEN -offset ELSE offset
DateProviders == {"naive_date", "naive_datetime", "datetime_utc", "datetime_fixed"}
TimestampProviders == {"naive_datetime", "datetime_utc", "datetime_fixed"}

(***************************************************************************)
(* C1                                                                      *)
(***************************************************************************)

C2_MalformedOrdinalRejected ==
    (pc \in DateProviders /\ OrdinalField > 365 /\ StoredYear \in 2..9999)
    => out.kind = "MalformedEncoding"

(***************************************************************************)
(* C3                                                                      *)
(***************************************************************************)

C4_OffsetSign ==
    (pc = "datetime_fixed" /\ out.kind = "ok")
    => LET suffix == Fields(out.str).suffix
       IN  /\ Fields(out.str).timed
           /\ Len(suffix) = 6
           /\ suffix[1] = "+" <=> offset >= 0
           /\ suffix[1] = "-" <=> offset < 0
           /\ offset = 0 => suffix = <<"+", "0", "0", ":", "0", "0">>
           /\ offset = -3600 => suffix = <<"-", "0", "1", ":", "0", "0">>
           /\ offset = 19800 => suffix = <<"+", "0", "5", ":", "3", "0">>

C4_Witness ==
    /\ pc = "datetime_fixed"
    /\ offset = 0 /\ secs = 0
    /\ out.kind = "ok"
    /\ Fields(out.str).suffix = <<"+", "0", "0", ":", "0", "0">>

(***************************************************************************)
(* C5                                                                      *)
(***************************************************************************)

\* C5: datetime_utc returns what naive_datetime returns for the same ymdf,
\* secs and frac followed by the one character "Z" (and raises where
\* naive_datetime raises), so it never ends in a numeric offset.
C5_UtcIsNaivePlusZ ==
    pc = "datetime_utc"
    => LET naive == naive_datetime(ymdf, secs, frac, ypad)
       IN  IF naive.kind = "ok"
           THEN /\ out.kind = "ok"
                /\ out.str = Append(naive.str, "Z")
                /\ Fields(out.str).timed
                /\ Fields(out.str).suffix = <<"Z">>
           ELSE out = naive

C5_Witness ==
    /\ pc = "datetime_utc"
    /\ ymdf = Ymdf(2024, 1, 0) /\ secs = 3661 /\ frac = 500000000 /\ ypad = 4
    /\ out.str = <<"2", "0", "2", "4", "-", "0", "1", "-", "0", "1", "T",
                   "0", "1", ":", "0", "1", ":", "0", "1", ".", "5", "0", "0", "Z">>

(***************************************************************************)
(* C6                                                                      *)
(***************************************************************************)

\* C6: naive_time renders secs div 3600, (secs div 60) mod 60 and secs mod
\* 60, each zero-padded to at least 2 digits, then frac itself zero-padded to
\* at least 9 digits; secs >= 86400 is rendered with an hour of 24 or more
\* and frac = 1500000000 as those 10 digits.
C6_NaiveTimeFields ==
    pc = "naive_time"
    => LET t == TimeFields(out.str)
       IN  /\ out.kind = "ok"
           /\ t.shaped
           /\ PaddedTo(t.hour, 2) /\ NatOf(t.hour) = secs \div 3600
           /\ PaddedTo(t.minute, 2) /\ NatOf(t.minute) = (secs \div 60) % 60
           /\ PaddedTo(t.second, 2) /\ NatOf(t.second) = secs % 60
           /\ PaddedTo(t.nanos, 9) /\ NatOf(t.nanos) = frac
           /\ secs >= 86400 => NatOf(t.hour) >= 24
           /\ frac = 1500000000
                 => t.nanos = <<"1", "5", "0", "0", "0", "0", "0", "0", "0", "0">>

C6_Witness ==
    /\ pc = "naive_time"
    /\ secs = 86400 /\ frac = 1500000000
    /\ out.str = <<"2", "4", ":", "0", "0", ":", "0", "0", ".",
                   "1", "5", "0", "0", "0", "0", "0", "0", "0", "0">>

(***************************************************************************)
(* C7                                                                      *)
(***************************************************************************)

\* C7 as stated: in naive_datetime, datetime_utc and datetime_fixed the
\* sub-second field is frac div 1000000 and, for every frac in
\* 0..1999999999, exactly 3 digits wide.
C7_MillisExactlyThreeDigits ==
    (pc \in TimestampProviders /\ out.kind = "ok" /\ frac <= 1999999999)
    => /\ Fields(out.str).timed
       /\ NatOf(Fields(out.str).millis) = frac \div 1000000
       /\ Len(Fields(out.str).millis) = 3

\* C7 amended: the sub-second field is frac div 1000000 (truncated, so
\* 999999999 gives 999 and the seconds are those of secs plus the offset
\* alone), zero-padded to at least 3 digits: exactly 3 digits for frac in
\* 0..999999999 and 4 digits for frac in 1000000000..1999999999.
C7_MillisTruncated ==
    (pc \in TimestampProviders /\ out.kind = "ok")
    => LET f == Fields(out.str)
       IN  /\ f.timed
           /\ PaddedTo(f.millis, 3)
           /\ NatOf(f.millis) = frac \div 1000000
           /\ frac <= 999999999 => Len(f.millis) = 3
           /\ (frac >= 1000000000 /\ frac <= 1999999999) => Len(f.millis) = 4
           /\ frac = 999999999 => f.millis = <<"9", "9", "9">>
           /\ NatOf(f.second)
                 = (secs + (IF pc = "datetime_fixed" THEN offset ELSE 0)) % 60

C7_Witness ==
    /\ pc = "naive_datetime"
    /\ frac = 999999999 /\ secs = 3661
    /\ out.kind = "ok"
    /\ Fields(out.str).millis = <<"9", "9", "9">>
    /\ Fields(out.str).second = <<"0", "1">>

(***************************************************************************)
(* C8                                                                      *)
(***************************************************************************)

\* C8 as stated: for secs >= 86400 naive_datetime and datetime_utc show the
\* decoded date of ymdf unchanged and the hour secs div 3600 (24 or more),
\* without carrying the excess into the next day.
C8_ExcessSecondsShownRaw ==
    (/\ pc \in {"naive_datetime", "datetime_utc"}
     /\ secs >= 86400
     /\ naive_date(ymdf, ypad).kind = "ok")
    => /\ out.kind = "ok"
       /\ Fields(out.str).timed
       /\ Fields(out.str).datePart = naive_date(ymdf, ypad).str
       /\ NatOf(Fields(out.str).hour) = secs \div 3600

(***************************************************************************)
(* C9                                                                      *)
(***************************************************************************)

\* C9 as stated: for every offset in -86400..86400 the HH:MM after the sign
\* is abs(offset) div 3600 and (abs(offset) div 60) mod 60, so that the end
\* points render 24:00.
C9_MagnitudeIsDirectDecomposition ==
    (pc = "datetime_fixed" /\ out.kind = "ok" /\ offset \in -86400..86400)
    => LET suffix == Fields(out.str).suffix
       IN  /\ Len(suffix) = 6
           /\ NatAt(suffix, 2, 3) = Magnitude \div 3600
           /\ NatAt(suffix, 5, 6) = (Magnitude \div 60) % 60

\* C9 amended: for every offset strictly between -86400 and 86400 the HH:MM
\* after the sign is abs(offset) div 3600 and (abs(offset) div 60) mod 60,
\* the seconds remainder dropped; at abs(offset) = 86400 the anchor has moved
\* to the next day and 00:00 is rendered.
C9_MagnitudeBelowOneDay ==
    (pc = "datetime_fixed" /\ out.kind = "ok" /\ offset \in -86400..86400)
    => LET suffix == Fields(out.str).suffix
       IN  /\ Len(suffix) = 6
           /\ suffix[4] = ":"
           /\ PaddedTo(SubSeq(suffix, 2, 3), 2)
           /\ PaddedTo(SubSeq(suffix, 5, 6), 2)
           /\ Magnitude < 86400
                 => /\ NatAt(suffix, 2, 3) = Magnitude \div 3600
                    /\ NatAt(suffix, 5, 6) = (Magnitude \div 60) % 60
           /\ Magnitude = 86400
                 => SubSeq(suffix, 2, 6) = <<"0", "0", ":", "0", "0">>

C9_Witness ==
    /\ pc = "datetime_fixed"
    /\ offset = -3599
    /\ out.kind = "ok"
    /\ Fields(out.str).suffix = <<"-", "0", "0", ":", "5", "9">>

(***************************************************************************)
(* C10                                                                     *)
(***************************************************************************)

\* C10: for a packed date naive_date decodes, secs in 0..86399 and every
\* frac, the date part of naive_datetime is the output of naive_date, its
\* HH:MM:SS part is the HH:MM:SS part of naive_time, and datetime_fixed with
\* offset 0 is the naive_datetime output followed by "+00:00".
C10_ProvidersAgree ==
    (/\ pc \in {"naive_datetime", "datetime_fixed"}
     /\ secs < 86400
     /\ naive_date(ymdf, ypad).kind = "ok")
    => LET f == Fields(out.str)
       IN  /\ pc = "naive_datetime"
              => /\ out.kind = "ok"
                 /\ f.timed
                 /\ f.datePart = naive_date(ymdf, ypad).str
                 /\ f.clock = TimeFields(naive_time(secs, frac).str).clock
                 /\ Len(f.clock) = 8
                 /\ f.suffix = <<>>
           /\ (pc = "datetime_fixed" /\ offset = 0)
              => /\ out.kind = "ok"
                 /\ out.str = naive_datetime(ymdf, secs, frac, ypad).str
                                 \o <<"+", "0", "0", ":", "0", "0">>
                 /\ f.datePart = naive_date(ymdf, ypad).str

C10_Witness ==
    /\ pc = "datetime_fixed"
    /\ ymdf = Ymdf(2024, 1, 0) /\ secs = 3661 /\ frac = 500000000
    /\ offset = 0 /\ ypad = 4
    /\ out.str = <<"2", "0", "2", "4", "-", "0", "1", "-", "0", "1", "T",
                   "0", "1", ":", "0", "1", ":", "0", "1", ".", "5", "0", "0",
                   "+", "0", "0", ":", "0", "0">>

====
